---- MODULE Spec2Model ----
(***************************************************************************)
(* Managed attributes of the Fluent-Python demonstrations: the validated   *)
(* descriptors and properties of the bulk-food LineItem classes          *)
(* (Part5-Metaprogramming/property_*.py, descriptor_bulkfood*.py,          *)
(* metaclass_bulkfood.py) and the overriding / non-overriding descriptors  *)
(* of descriptor_kinds.py; and the Tombola containers of                   *)
(* Part3-Object-Oriented-Idioms/abc_tombola.py with the + and += of       *)
(* AddableBingoCage (operator_overloading.py).                             *)
(*                                                                         *)
(* Python strings are TLA+ strings, instance and class __dict__s are       *)
(* functions whose DOMAIN is the set of keys, ordered mappings are         *)
(* sequences of <<key, value>> pairs, and an object's identity is its      *)
(* index in the sequence that holds it.                                    *)
(***************************************************************************)
EXTENDS Integers, Sequences, FiniteSets, TLC

VARIABLES
    counters,    \* class name -> its own (name-mangled) __counter attribute
    fn_attrs,    \* attributes of the function object quantity_auto
    descs,       \* descriptor / property objects, in order of creation
    ns,          \* namespace of the class body being executed
    built,       \* the class the class statement has built, if it has ended
    items,       \* LineItem instances
    last,        \* outcome of the last statement run on a LineItem
    managed,     \* __dict__ of class Managed (descriptor_kinds.py)
    objs,        \* __dict__ of each Managed instance
    out,         \* what the last statement on Managed returned and printed
    cages,       \* variable name -> the Tombola object it is bound to
    res          \* outcome of the last statement run on a Tombola

nameVars == <<counters, fn_attrs, descs, ns, built>>
itemVars == <<items, last>>
kindVars == <<managed, objs, out>>
tombVars == <<cages, res>>
vars     == <<counters, fn_attrs, descs, ns, built, items, last,
              managed, objs, out, cages, res>>

-----------------------------------------------------------------------------
(* Bounds of the model *)

MaxDescs == 4
MaxBodyDescs == 3
MaxItems == 1
MaxObjs == 1
MaxBalls == 2

-----------------------------------------------------------------------------
(* Python data: dicts and format *)

EmptyDict == [k \in {} |-> 0]

DictSet(d, k, v) == [x \in DOMAIN d \cup {k} |-> IF x = k THEN v ELSE d[x]]

DictDel(d, k) == [x \in DOMAIN d \ {k} |-> d[x]]

\* str(n) of a non-negative int, as str.format renders it
Str(n) == ToString(n)

\* '_{}#{}'.format(prefix, arg) and '_{}:{}'.format(prefix, arg), arg a str
Format(prefix, sep, arg) == "_" \o prefix \o sep \o arg

-----------------------------------------------------------------------------
(* Class hierarchy of the descriptor classes *)

Base(cls) ==
    CASE cls = "Quantity"  -> "Validated"
      [] cls = "NonBlank"  -> "Validated"
      [] cls = "Validated" -> "AutoStorage"
      [] OTHER             -> "object"

RECURSIVE IsSubclass(_, _)
IsSubclass(cls, of) ==
    IF cls = of THEN TRUE
    ELSE IF cls = "object" THEN FALSE
    ELSE IsSubclass(Base(cls), of)

\* cls.__counter read through the class: the nearest class of the MRO that
\* owns the attribute
RECURSIVE ClassCounter(_, _)
ClassCounter(ctrs, cls) ==
    IF cls \in DOMAIN ctrs THEN ctrs[cls] ELSE ClassCounter(ctrs, Base(cls))

\* State of the counters once the modules are loaded and before any
\* descriptor is created: `__counter = 0` in the two class bodies
InitCounters == [c \in {"AutoStorage", "QuantityAuto"} |-> 0]

-----------------------------------------------------------------------------
(* Creation of descriptors and properties with a generated storage name *)

\* AutoStorage.__init__ without `cls.__counter += 1`
AutoStorageInit_NoIncrement(ctrs, cls) ==
    [storage_name |-> Format(cls, "#", Str(ClassCounter(ctrs, cls))),
     counters     |-> ctrs]

\* AutoStorage.__init__(self) with self.__class__ = cls: the storage name
\* given to the new descriptor and the counters afterwards.  The read
\* cls.__counter follows the MRO; the write `cls.__counter += 1` always
\* binds the attribute on cls itself.
AutoStorageInit(ctrs, cls) ==
    LET index == ClassCounter(ctrs, cls)
    IN  [storage_name |-> Format(cls, "#", Str(index)),
         counters     |-> DictSet(ctrs, cls, index + 1)]

\* QuantityAuto.__init__(self) with self.__class__ = cls
QuantityAutoInit(ctrs, cls) ==
    LET index == ClassCounter(ctrs, cls)
    IN  [storage_name |-> Format(cls, "#", Str(index)),
         counters     |-> DictSet(ctrs, cls, index + 1)]

\* quantity_auto(): the counter is an attribute of the function object,
\* created at 0 by the first call and incremented by every later one
QuantityAutoCounter(attrs) ==
    IF "counter" \in DOMAIN attrs
    THEN DictSet(attrs, "counter", attrs["counter"] + 1)
    ELSE DictSet(attrs, "counter", 0)

QuantityAutoFactory(attrs) ==
    LET after == QuantityAutoCounter(attrs)
    IN  [storage_name |-> Format("quantity_auto", ":", Str(after["counter"])),
         fn_attrs     |-> after]

Descriptor(cls, name) == [cls |-> cls, storage_name |-> name]

AutoStorageClasses == {"AutoStorage", "Quantity", "NonBlank"}

\* AutoStorage(), Quantity() or NonBlank()
CreateAutoStorage(cls) ==
    /\ Len(descs) < MaxDescs
    /\ LET r == AutoStorageInit(counters, cls)
       IN  /\ descs' = Append(descs, Descriptor(cls, r.storage_name))
           /\ counters' = r.counters
    /\ UNCHANGED <<fn_attrs, ns, built, itemVars, kindVars, tombVars>>

\* QuantityAuto()
CreateQuantityAuto ==
    /\ Len(descs) < MaxDescs
    /\ LET r == QuantityAutoInit(counters, "QuantityAuto")
       IN  /\ descs' = Append(descs, Descriptor("QuantityAuto", r.storage_name))
           /\ counters' = r.counters
    /\ UNCHANGED <<fn_attrs, ns, built, itemVars, kindVars, tombVars>>

\* quantity_auto()
CreateQuantityAutoProperty ==
    /\ Len(descs) < MaxDescs
    /\ LET r == QuantityAutoFactory(fn_attrs)
       IN  /\ descs' = Append(descs, Descriptor("property", r.storage_name))
           /\ fn_attrs' = r.fn_attrs
    /\ UNCHANGED <<counters, ns, built, itemVars, kindVars, tombVars>>

-----------------------------------------------------------------------------
(* Class bodies, the @entity decorator and the EntityMeta metaclasses *)

Keys == {"description", "weight", "price"}

\* A value bound in a class namespace: a reference to a descriptor object
\* or a plain int
DescRef(id) == [kind |-> "desc", ref |-> id]
Plain(v)    == [kind |-> "plain", ref |-> v]

NsKeys(body) == {body[i][1] : i \in 1..Len(body)}

NsIndex(body, key) == CHOOSE i \in 1..Len(body) : body[i][1] = key

\* namespace[key] = val on an insertion-ordered mapping: a key already
\* bound keeps its position
NsSet(body, key, val) ==
    IF key \in NsKeys(body)
    THEN [body EXCEPT ![NsIndex(body, key)] = <<key, val>>]
    ELSE Append(body, <<key, val>>)

\* isinstance(attr, Validated)
IsValidated(ds, val) ==
    val.kind = "desc" /\ IsSubclass(ds[val.ref].cls, "Validated")

\* entity(cls): for key, attr in cls.__dict__.items(), from entry i on
RECURSIVE EntityLoop(_, _, _)
EntityLoop(ds, body, i) ==
    IF i > Len(body) THEN ds
    ELSE LET key  == body[i][1]
             attr == body[i][2]
         IN  IF IsValidated(ds, attr)
             THEN EntityLoop(
                      [ds EXCEPT ![attr.ref].storage_name =
                                     Format(ds[attr.ref].cls, "#", key)],
                      body, i + 1)
             ELSE EntityLoop(ds, body, i + 1)

\* entity without the isinstance test: every descriptor is renamed
RECURSIVE entity_NoTypeTest(_, _)
entity_NoTypeTest(ds, body) ==
    IF body = << >> THEN ds
    ELSE LET key  == body[1][1]
             attr == body[1][2]
             rest == SubSeq(body, 2, Len(body))
         IN  IF attr.kind = "desc"
             THEN entity_NoTypeTest(
                      [ds EXCEPT ![attr.ref].storage_name =
                                     Format(ds[attr.ref].cls, "#", key)], rest)
             ELSE entity_NoTypeTest(ds, rest)

entity(ds, body) == EntityLoop(ds, body, 1)

\* EntityMeta.__init__(cls, name, bases, attr_dict)
RECURSIVE EntityMetaLoop(_, _, _)
EntityMetaLoop(ds, attr_dict, i) ==
    IF i > Len(attr_dict) THEN ds
    ELSE LET key  == attr_dict[i][1]
             attr == attr_dict[i][2]
         IN  IF IsValidated(ds, attr)
             THEN EntityMetaLoop(
                      [ds EXCEPT ![attr.ref].storage_name =
                                     Format(ds[attr.ref].cls, "#", key)],
                      attr_dict, i + 1)
             ELSE EntityMetaLoop(ds, attr_dict, i + 1)

EntityMetaInit(ds, attr_dict) == EntityMetaLoop(ds, attr_dict, 1)

\* EntityMeta2.__init__(cls, name, bases, attr_dict): st is the pair of the
\* descriptors and cls._field_names
RECURSIVE EntityMeta2Loop(_, _, _)
EntityMeta2Loop(st, attr_dict, i) ==
    IF i > Len(attr_dict) THEN st
    ELSE LET key  == attr_dict[i][1]
             attr == attr_dict[i][2]
         IN  IF IsValidated(st.descs, attr)
             THEN EntityMeta2Loop(
                      [descs |-> [st.descs EXCEPT ![attr.ref].storage_name =
                                     Format(st.descs[attr.ref].cls, "#", key)],
                       field_names |-> Append(st.field_names, key)],
                      attr_dict, i + 1)
             ELSE EntityMeta2Loop(st, attr_dict, i + 1)

\* EntityMeta2.__init__ appending every key to _field_names
EntityMeta2Init_EveryKey(ds, attr_dict) ==
    [descs       |-> EntityMetaLoop(ds, attr_dict, 1),
     field_names |-> [i \in 1..Len(attr_dict) |-> attr_dict[i][1]]]

EntityMeta2Init(ds, attr_dict) ==
    EntityMeta2Loop([descs |-> ds, field_names |-> << >>], attr_dict, 1)

\* Entity2.field_names(): the names the generator yields, in order
field_names(cls) == cls.field_names

\* `key = AutoStorage()`, `key = Quantity()` or `key = NonBlank()` in a
\* class body
BodyNew(key, cls) ==
    /\ Len(descs) < MaxBodyDescs
    /\ built.how = "none"
    /\ LET r == AutoStorageInit(counters, cls)
       IN  /\ descs' = Append(descs, Descriptor(cls, r.storage_name))
           /\ counters' = r.counters
           /\ ns' = NsSet(ns, key, DescRef(Len(descs) + 1))
    /\ UNCHANGED <<fn_attrs, built, itemVars, kindVars, tombVars>>

\* `key = <expression whose value is an existing descriptor>` in a class
\* body, e.g. `price = weight`
BodyBind(key, id) ==
    /\ built.how = "none"
    /\ id \in 1..Len(descs)
    /\ ns' = NsSet(ns, key, DescRef(id))
    /\ UNCHANGED <<counters, fn_attrs, descs, built, itemVars, kindVars, tombVars>>

\* `key = v` in a class body, v a plain int
BodyPlain(key, v) ==
    /\ built.how = "none"
    /\ ns' = NsSet(ns, key, Plain(v))
    /\ UNCHANGED <<counters, fn_attrs, descs, built, itemVars, kindVars, tombVars>>

\* End of a class body decorated with @entity
DefineEntity ==
    /\ built.how = "none"
    /\ descs' = entity(descs, ns)
    /\ built' = [how |-> "entity", body |-> ns,
                                   field_names |-> << >>]
    /\ ns' = << >>
    /\ UNCHANGED <<counters, fn_attrs, itemVars, kindVars, tombVars>>

\* End of the body of a class whose metaclass is EntityMeta
DefineEntityMeta ==
    /\ built.how = "none"
    /\ descs' = EntityMetaInit(descs, ns)
    /\ built' = [how |-> "EntityMeta", body |-> ns,
                                   field_names |-> << >>]
    /\ ns' = << >>
    /\ UNCHANGED <<counters, fn_attrs, itemVars, kindVars, tombVars>>

\* End of the body of a class whose metaclass is EntityMeta2
DefineEntityMeta2 ==
    /\ built.how = "none"
    /\ LET r == EntityMeta2Init(descs, ns)
       IN  /\ descs' = r.descs
           /\ built' = [how |-> "EntityMeta2", body |-> ns,
                                          field_names |-> r.field_names]
    /\ ns' = << >>
    /\ UNCHANGED <<counters, fn_attrs, itemVars, kindVars, tombVars>>

-----------------------------------------------------------------------------
(* Numbers: the comparisons of int and float *)

\* float('nan'), for which no comparison with a number holds. It is written
\* as a number that equals no other number of this module and is compared
\* through Gt and Le only.
NaN == 1000

\* a > b, b an int
Gt(a, b) == a # NaN /\ a > b

\* a <= b, b an int
Le(a, b) == a # NaN /\ a <= b

-----------------------------------------------------------------------------
(* Strings: str.strip() *)

\* Characters str.strip() removes: those of str.isspace() that a string of
\* this module can hold, U+0009 to U+000D, U+001C to U+001F, U+0020, U+0085,
\* U+00A0 and U+1680 (the other whitespace, U+2000 to U+200A, U+2028,
\* U+2029, U+202F, U+205F and U+3000, cannot be written in a string here).
\* U+000B, U+001C to U+001F, U+0085, U+00A0 and U+1680 stand as themselves
\* between the quotes.
Whitespace == {" ", "\t", "\n", "\r", "\f", "", "", "", "",
               "", "", " ", " "}

RECURSIVE LStrip(_)
LStrip(s) ==
    IF Len(s) > 0 /\ SubSeq(s, 1, 1) \in Whitespace
    THEN LStrip(SubSeq(s, 2, Len(s)))
    ELSE s

RECURSIVE RStrip(_)
RStrip(s) ==
    IF Len(s) > 0 /\ SubSeq(s, Len(s), Len(s)) \in Whitespace
    THEN RStrip(SubSeq(s, 1, Len(s) - 1))
    ELSE s

\* value.strip()
Strip(s) == RStrip(LStrip(s))

-----------------------------------------------------------------------------
(* The LineItem classes as they stand once their modules are loaded *)

\* The descriptors made by running `Cls()` for each class name of `names`,
\* in order, after the descriptors of `acc`
RECURSIVE CreateAll(_, _, _)
CreateAll(acc, names, i) ==
    IF i > Len(names) THEN acc
    ELSE LET r == AutoStorageInit(acc.counters, names[i])
         IN  CreateAll([descs    |-> Append(acc.descs,
                                       Descriptor(names[i], r.storage_name)),
                        counters |-> r.counters],
                       names, i + 1)

\* description = NonBlank(); weight = Quantity(); price = Quantity()
LineItemBody ==
    << <<"description", DescRef(1)>>, <<"weight", DescRef(2)>>,
       <<"price", DescRef(3)>> >>

LineItemFields == <<"NonBlank", "Quantity", "Quantity">>

\* descriptor_bulkfood2 loaded: the body of LineItem, then @entity
Bulkfood2Loaded ==
    LET made == CreateAll([descs |-> << >>, counters |-> InitCounters],
                          LineItemFields, 1)
    IN  [descs |-> entity(made.descs, LineItemBody), counters |-> made.counters]

\* metaclass_bulkfood loaded (it imports descriptor_bulkfood2 first): the
\* body of LineItem(Entity2), then EntityMeta2.__init__
MetaclassLoaded ==
    LET made == CreateAll([descs |-> << >>,
                           counters |-> Bulkfood2Loaded.counters],
                          LineItemFields, 1)
    IN  EntityMeta2Init(made.descs, LineItemBody)

\* descriptor_bulkfood loaded: weight = QuantityAuto(); price = QuantityAuto()
BulkfoodAutoLoaded ==
    LET w == QuantityAutoInit(InitCounters, "QuantityAuto")
        p == QuantityAutoInit(w.counters, "QuantityAuto")
    IN  [weight |-> Descriptor("QuantityAuto", w.storage_name),
         price  |-> Descriptor("QuantityAuto", p.storage_name)]

\* property_factory loaded: weight = quantity_auto(); price = quantity_auto()
FactoryAutoLoaded ==
    LET w == QuantityAutoFactory(EmptyDict)
        p == QuantityAutoFactory(w.fn_attrs)
    IN  [weight |-> Descriptor("property.quantity_auto", w.storage_name),
         price  |-> Descriptor("property.quantity_auto", p.storage_name)]

\* self.__weight inside the body of class `name`: the name-mangled attribute
Mangle(name, attr) == "_" \o name \o "__" \o attr

\* quantity(storage_name)
quantity(storage_name) == Descriptor("property.quantity", storage_name)

LineItemClasses ==
    {"property_bulkfood.LineItem", "property_bulkfood.LineItemClassic",
     "property_factory.LineItem", "property_factory.LineItemAuto",
     "descriptor_bulkfood.LineItem", "descriptor_bulkfood.LineItemAuto",
     "descriptor_bulkfood2.LineItem", "metaclass_bulkfood.LineItem"}

\* The managed attributes of each class (name -> descriptor or property)
\* and the order in which __init__ assigns description, weight and price
LineItemClassDef(cls) ==
    CASE cls = "property_bulkfood.LineItem" ->
           [attrs |-> [weight |-> Descriptor("property.weight",
                                             Mangle("LineItem", "weight"))],
            init  |-> <<"description", "weight", "price">>]
      [] cls = "property_bulkfood.LineItemClassic" ->
           [attrs |-> [weight |-> Descriptor("property.weight",
                                      Mangle("LineItemClassic", "weight"))],
            init  |-> <<"description", "weight", "price">>]
      [] cls = "property_factory.LineItem" ->
           [attrs |-> [weight |-> quantity("weight"),
                       price  |-> quantity("price")],
            init  |-> <<"description", "weight", "price">>]
      [] cls = "property_factory.LineItemAuto" ->
           [attrs |-> FactoryAutoLoaded,
            init  |-> <<"description", "weight", "price">>]
      [] cls = "descriptor_bulkfood.LineItem" ->
           [attrs |-> [weight |-> Descriptor("descriptor_bulkfood.Quantity",
                                             "weight"),
                       price  |-> Descriptor("descriptor_bulkfood.Quantity",
                                             "price")],
            init  |-> <<"description", "weight", "price">>]
      [] cls = "descriptor_bulkfood.LineItemAuto" ->
           [attrs |-> BulkfoodAutoLoaded,
            init  |-> <<"description", "price", "weight">>]
      [] cls = "descriptor_bulkfood2.LineItem" ->
           [attrs |-> [description |-> Bulkfood2Loaded.descs[1],
                       weight      |-> Bulkfood2Loaded.descs[2],
                       price       |-> Bulkfood2Loaded.descs[3]],
            init  |-> <<"description", "price", "weight">>]
      [] cls = "metaclass_bulkfood.LineItem" ->
           [attrs |-> [description |-> MetaclassLoaded.descs[1],
                       weight      |-> MetaclassLoaded.descs[2],
                       price       |-> MetaclassLoaded.descs[3]],
            init  |-> <<"description", "price", "weight">>]

\* The table of the classes, built once
LineItemClassTable == [cls \in LineItemClasses |-> LineItemClassDef(cls)]

LineItemClass(cls) == LineItemClassTable[cls]

-----------------------------------------------------------------------------
(* Attribute access on a LineItem instance of class cls with __dict__ d *)

Value(v)       == [tag |-> "value", value |-> v]
Itself(desc)   == [tag |-> "descriptor", value |-> desc]
AttributeError == [tag |-> "AttributeError"]
KeyError       == [tag |-> "KeyError"]

Stored(d)  == [exc |-> "none", dict |-> d]
Raised(d)  == [exc |-> "ValueError", dict |-> d]

\* Descriptor classes that define __get__ (a property always does)
HasGet(desc) == desc.cls # "descriptor_bulkfood.Quantity"

RECURSIVE GetAttr(_, _, _)
RECURSIVE SetAttr(_, _, _, _)

\* property_bulkfood: the weight getter, `return self.__weight`
weight_getter(desc, cls, d) == GetAttr(cls, d, desc.storage_name)

\* property_bulkfood: the weight setter
weight_setter(desc, cls, d, value) ==
    IF Gt(value, 0)
    THEN SetAttr(cls, d, desc.storage_name, value)
    ELSE Raised(d)

\* property_factory.quantity: qty_getter, `instance.__dict__[storage_name]`
qty_getter(desc, cls, d) ==
    IF desc.storage_name \in DOMAIN d
    THEN Value(d[desc.storage_name])
    ELSE KeyError

\* property_factory.quantity: qty_setter
qty_setter(desc, cls, d, value) ==
    IF Gt(value, 0)
    THEN Stored(DictSet(d, desc.storage_name, value))
    ELSE Raised(d)

\* property_factory.quantity_auto: qty_getter
qty_auto_getter(desc, cls, d) == GetAttr(cls, d, desc.storage_name)

\* property_factory.quantity_auto: qty_setter
qty_auto_setter(desc, cls, d, value) ==
    IF Gt(value, 0)
    THEN SetAttr(cls, d, desc.storage_name, value)
    ELSE Raised(d)

\* descriptor_bulkfood.Quantity.__set__
QuantitySet(desc, cls, d, value) ==
    IF Gt(value, 0)
    THEN Stored(DictSet(d, desc.storage_name, value))
    ELSE Raised(d)

\* descriptor_bulkfood.QuantityAuto.__get__ with instance not None
QuantityAutoGet(desc, cls, d) == GetAttr(cls, d, desc.storage_name)

\* QuantityAuto.__set__ storing under the class name instead of the
\* storage name
QuantityAutoSet_WrongKey(desc, cls, d, value) ==
    IF Gt(value, 0)
    THEN SetAttr(cls, d, "_" \o desc.cls, value)
    ELSE Raised(d)

\* descriptor_bulkfood.QuantityAuto.__set__
QuantityAutoSet(desc, cls, d, value) ==
    IF Gt(value, 0)
    THEN SetAttr(cls, d, desc.storage_name, value)
    ELSE Raised(d)

\* descriptor_bulkfood2.AutoStorage.__get__ with instance not None
AutoStorageGet(desc, cls, d) == GetAttr(cls, d, desc.storage_name)

\* descriptor_bulkfood2.AutoStorage.__set__
AutoStorageSet(desc, cls, d, value) ==
    SetAttr(cls, d, desc.storage_name, value)

\* Quantity.validate returning the value before it tests it
QuantityValidate_NoRaise(value) == [exc |-> "none", value |-> value]

\* descriptor_bulkfood2.Quantity.validate: the validated value, or the
\* ValueError it raises
QuantityValidate(value) ==
    IF Le(value, 0) THEN [exc |-> "ValueError"]
    ELSE [exc |-> "none", value |-> value]

\* NonBlank.validate returning the value as given once it passes the test
NonBlankValidate_Unstripped(value) ==
    IF Len(Strip(value)) = 0 THEN [exc |-> "ValueError"]
    ELSE [exc |-> "none", value |-> value]

\* descriptor_bulkfood2.NonBlank.validate
NonBlankValidate(value) ==
    LET stripped == Strip(value)
    IN  IF Len(stripped) = 0 THEN [exc |-> "ValueError"]
        ELSE [exc |-> "none", value |-> stripped]

\* self.validate(instance, value), dispatched on the descriptor's class
Validate(desc, value) ==
    IF desc.cls = "NonBlank" THEN NonBlankValidate(value)
    ELSE QuantityValidate(value)

\* descriptor_bulkfood2.Validated.__set__
ValidatedSet(desc, cls, d, value) ==
    LET v == Validate(desc, value)
    IN  IF v.exc # "none" THEN Raised(d)
        ELSE AutoStorageSet(desc, cls, d, v.value)

\* desc.__get__(instance, owner) with instance not None
DescGet(desc, cls, d) ==
    CASE desc.cls = "property.weight"        -> weight_getter(desc, cls, d)
      [] desc.cls = "property.quantity"      -> qty_getter(desc, cls, d)
      [] desc.cls = "property.quantity_auto" -> qty_auto_getter(desc, cls, d)
      [] desc.cls = "QuantityAuto"           -> QuantityAutoGet(desc, cls, d)
      [] OTHER                               -> AutoStorageGet(desc, cls, d)

\* desc.__set__(instance, value)
DescSet(desc, cls, d, value) ==
    CASE desc.cls = "property.weight"        -> weight_setter(desc, cls, d, value)
      [] desc.cls = "property.quantity"      -> qty_setter(desc, cls, d, value)
      [] desc.cls = "property.quantity_auto" -> qty_auto_setter(desc, cls, d, value)
      [] desc.cls = "descriptor_bulkfood.Quantity" -> QuantitySet(desc, cls, d, value)
      [] desc.cls = "QuantityAuto"           -> QuantityAutoSet(desc, cls, d, value)
      [] desc.cls = "AutoStorage"            -> AutoStorageSet(desc, cls, d, value)
      [] OTHER                               -> ValidatedSet(desc, cls, d, value)

\* instance.name: every descriptor of these classes defines __set__, so it
\* takes precedence over the instance __dict__ when it defines __get__;
\* without __get__ the __dict__ entry is read, or else the descriptor
GetAttr(cls, d, name) ==
    LET attrs == LineItemClass(cls).attrs
    IN  IF name \in DOMAIN attrs /\ HasGet(attrs[name])
        THEN DescGet(attrs[name], cls, d)
        ELSE IF name \in DOMAIN d THEN Value(d[name])
        ELSE IF name \in DOMAIN attrs THEN Itself(attrs[name])
        ELSE AttributeError

\* instance.name = value
SetAttr(cls, d, name, value) ==
    LET attrs == LineItemClass(cls).attrs
    IN  IF name \in DOMAIN attrs
        THEN DescSet(attrs[name], cls, d, value)
        ELSE Stored(DictSet(d, name, value))

\* Cls.name, read through the class: __get__(None, owner) returns the
\* descriptor, as does a property and a descriptor without __get__
ClassGetAttr(cls, name) ==
    LET attrs == LineItemClass(cls).attrs
    IN  IF name \in DOMAIN attrs THEN Itself(attrs[name]) ELSE AttributeError

\* LineItem.__init__: the three assignments in the order of the class; the
\* first one that raises ends the construction
RECURSIVE InitLoop(_, _, _, _)
InitLoop(cls, d, args, i) ==
    LET order == LineItemClass(cls).init
    IN  IF i > Len(order) THEN Stored(d)
        ELSE LET r == SetAttr(cls, d, order[i], args[order[i]])
             IN  IF r.exc # "none" THEN r
                 ELSE InitLoop(cls, r.dict, args, i + 1)

LineItemInit(cls, description, weight, price) ==
    InitLoop(cls, EmptyDict,
             [description |-> description, weight |-> weight, price |-> price],
             1)

-----------------------------------------------------------------------------
(* Statements on LineItem instances *)

\* Numbers given as weight and price
Numbers == (-1..2) \cup {NaN}

\* Strings given as the description of a class that validates it
Strings == {"", "\r", " \t", "a", " a ", " a\fb\r"}

\* Values a statement gives to attribute `name` of an instance of cls
Inputs(cls, name) ==
    IF name # "description" THEN Numbers
    ELSE IF "description" \in DOMAIN LineItemClass(cls).attrs THEN Strings
    ELSE {"Golden raisins"}

\* item = Cls(description, weight, price): the instance exists only when
\* __init__ returns
NewLineItem(cls, description, weight, price) ==
    /\ Len(items) < MaxItems
    /\ LET r == LineItemInit(cls, description, weight, price)
       IN  /\ items' = IF r.exc = "none"
                       THEN Append(items, [cls |-> cls, dict |-> r.dict])
                       ELSE items
           /\ last' = [op |-> "new", cls |-> cls, description |-> description,
                       weight |-> weight, price |-> price, exc |-> r.exc]
    /\ UNCHANGED <<nameVars, kindVars, tombVars>>

\* items[i].name = value
Assign(i, name, value) ==
    /\ i \in 1..Len(items)
    /\ LET r == SetAttr(items[i].cls, items[i].dict, name, value)
       IN  /\ items' = [items EXCEPT ![i].dict = r.dict]
           /\ last' = [op |-> "set", target |-> i, name |-> name,
                       value |-> value, exc |-> r.exc]
    /\ UNCHANGED <<nameVars, kindVars, tombVars>>

-----------------------------------------------------------------------------
(* descriptor_kinds.py: the class Managed and its three descriptors *)

ManagedNames == {"over", "over_no_get", "non_over"}

\* Values assigned through an instance or put into its __dict__
ManagedValues == {7, 9}

\* Values assigned to an attribute of the class Managed itself
PatchValues == {1}

\* Python objects as print_args receives them
PyNone        == [type |-> "NoneType"]
PyInt(v)      == [type |-> "int", value |-> v]
PyClass(name) == [type |-> "type", name |-> name]
PyObject(cls) == [type |-> cls]

\* name.split('.')[-1]: what follows the last dot at or before position i
RECURSIVE SplitLast(_, _)
SplitLast(name, i) ==
    IF i = 0 THEN name
    ELSE IF SubSeq(name, i, i) = "." THEN SubSeq(name, i + 1, Len(name))
    ELSE SplitLast(name, i - 1)

\* cls_name(obj_or_cls)
cls_name(x) ==
    LET cls == IF x.type = "type" THEN x.name ELSE x.type
    IN  SplitLast(cls, Len(cls))

\* display(obj)
display(x) ==
    IF x.type = "type" THEN "<class " \o x.name \o ">"
    ELSE IF x.type = "NoneType" THEN "None"
    ELSE IF x.type = "int" THEN Str(x.value)
    ELSE "<" \o cls_name(x) \o " object>"

\* ', '.join(display(x) for x in args), from argument i on
RECURSIVE JoinArgs(_, _)
JoinArgs(args, i) ==
    IF i > Len(args) THEN ""
    ELSE IF i = Len(args) THEN display(args[i])
    ELSE display(args[i]) \o ", " \o JoinArgs(args, i + 1)

\* print_args(name, *args): the line it prints
print_args(name, args) ==
    "-> " \o cls_name(args[1]) \o ".__" \o name \o "__(" \o JoinArgs(args, 1) \o ")"

\* An attribute of the class Managed: one of the descriptors of its body,
\* or the plain int later assigned to the class attribute
ClassDesc(cls) == [kind |-> "descriptor", cls |-> cls]
ClassInt(v)    == [kind |-> "int", value |-> v]

\* Body of class Managed
ManagedBody ==
    [over        |-> ClassDesc("Overriding"),
     over_no_get |-> ClassDesc("OverridingNoGet"),
     non_over    |-> ClassDesc("NonOverriding")]

\* The descriptor classes that define __get__ / __set__
DefinesGet(a) == a.kind = "descriptor" /\ a.cls \in {"Overriding", "NonOverriding"}
DefinesSet(a) == a.kind = "descriptor" /\ a.cls \in {"Overriding", "OverridingNoGet"}

\* What a statement returns
RetNone       == [tag |-> "None"]
RetInt(v)     == [tag |-> "int", value |-> v]
RetDesc(cls)  == [tag |-> "descriptor", cls |-> cls]
RetError      == [tag |-> "AttributeError"]

RetAttr(a) == IF a.kind = "int" THEN RetInt(a.value) ELSE RetDesc(a.cls)

\* Overriding.__get__ / NonOverriding.__get__: print the call, return None
DescriptorGet(a, instance) ==
    [ret     |-> RetNone,
     printed |-> <<print_args("get", <<PyObject(a.cls), instance,
                                       PyClass("Managed")>>)>>]

\* Overriding.__set__ / OverridingNoGet.__set__: print the call
DescriptorSet(a, value) ==
    <<print_args("set", <<PyObject(a.cls), PyObject("Managed"), PyInt(value)>>)>>

\* obj.name with the instance __dict__ read before any descriptor
ManagedGetAttr_DictFirst(cdict, d, name) ==
    LET a == cdict[name]
    IN  IF name \in DOMAIN d
        THEN [ret |-> RetInt(d[name]), printed |-> << >>]
        ELSE IF DefinesGet(a)
        THEN DescriptorGet(a, PyObject("Managed"))
        ELSE [ret |-> RetAttr(a), printed |-> << >>]

\* obj.name: a descriptor with __set__ and __get__ is called first, then
\* the instance __dict__ is read, then a descriptor with __get__ only is
\* called, and otherwise the class attribute itself is the result
ManagedGetAttr(cdict, d, name) ==
    LET a == cdict[name]
    IN  IF DefinesGet(a) /\ DefinesSet(a)
        THEN DescriptorGet(a, PyObject("Managed"))
        ELSE IF name \in DOMAIN d
        THEN [ret |-> RetInt(d[name]), printed |-> << >>]
        ELSE IF DefinesGet(a)
        THEN DescriptorGet(a, PyObject("Managed"))
        ELSE [ret |-> RetAttr(a), printed |-> << >>]

\* Managed.name
ManagedClassGetAttr(cdict, name) ==
    LET a == cdict[name]
    IN  IF DefinesGet(a) THEN DescriptorGet(a, PyNone)
        ELSE [ret |-> RetAttr(a), printed |-> << >>]

\* obj.name = value calling __set__ and storing the value as well
ManagedSetAttr_AlsoStores(cdict, d, name, value) ==
    LET a == cdict[name]
    IN  IF DefinesSet(a)
        THEN [dict |-> DictSet(d, name, value),
              printed |-> DescriptorSet(a, value)]
        ELSE [dict |-> DictSet(d, name, value), printed |-> << >>]

\* obj.name = value: a descriptor with __set__ is called, otherwise the
\* value goes into the instance __dict__
ManagedSetAttr(cdict, d, name, value) ==
    LET a == cdict[name]
    IN  IF DefinesSet(a)
        THEN [dict |-> d, printed |-> DescriptorSet(a, value)]
        ELSE [dict |-> DictSet(d, name, value), printed |-> << >>]

\* del obj.name leaving the entry in place
ManagedDelAttr_KeepsEntry(cdict, d, name) ==
    LET a == cdict[name]
    IN  IF DefinesSet(a) \/ name \notin DOMAIN d
        THEN [dict |-> d, ret |-> RetError]
        ELSE [dict |-> d, ret |-> RetNone]

\* del obj.name: a descriptor with __set__ and no __delete__ raises
\* AttributeError, otherwise the entry of the instance __dict__ is removed
ManagedDelAttr(cdict, d, name) ==
    LET a == cdict[name]
    IN  IF DefinesSet(a) \/ name \notin DOMAIN d
        THEN [dict |-> d, ret |-> RetError]
        ELSE [dict |-> DictDel(d, name), ret |-> RetNone]

\* obj = Managed()
NewManaged ==
    /\ Len(objs) < MaxObjs
    /\ objs' = Append(objs, EmptyDict)
    /\ out' = [op |-> "new", target |-> Len(objs) + 1]
    /\ UNCHANGED <<managed, nameVars, itemVars, tombVars>>

\* obj.name
Read(o, name) ==
    /\ o \in 1..Len(objs)
    /\ LET r == ManagedGetAttr(managed, objs[o], name)
       IN  out' = [op |-> "get", target |-> o, name |-> name,
                   ret |-> r.ret, printed |-> r.printed]
    /\ UNCHANGED <<managed, objs, nameVars, itemVars, tombVars>>

\* Managed.name
ClassRead(name) ==
    /\ LET r == ManagedClassGetAttr(managed, name)
       IN  out' = [op |-> "classget", name |-> name,
                   ret |-> r.ret, printed |-> r.printed]
    /\ UNCHANGED <<managed, objs, nameVars, itemVars, tombVars>>

\* obj.name = value
Write(o, name, value) ==
    /\ o \in 1..Len(objs)
    /\ LET r == ManagedSetAttr(managed, objs[o], name, value)
       IN  /\ objs' = [objs EXCEPT ![o] = r.dict]
           /\ out' = [op |-> "set", target |-> o, name |-> name,
                      value |-> value, ret |-> RetNone, printed |-> r.printed]
    /\ UNCHANGED <<managed, nameVars, itemVars, tombVars>>

\* del obj.name
Delete(o, name) ==
    /\ o \in 1..Len(objs)
    /\ LET r == ManagedDelAttr(managed, objs[o], name)
       IN  /\ objs' = [objs EXCEPT ![o] = r.dict]
           /\ out' = [op |-> "del", target |-> o, name |-> name,
                      ret |-> r.ret, printed |-> << >>]
    /\ UNCHANGED <<managed, nameVars, itemVars, tombVars>>

\* obj.__dict__[name] = value
DictAssign(o, name, value) ==
    /\ o \in 1..Len(objs)
    /\ objs' = [objs EXCEPT ![o] = DictSet(objs[o], name, value)]
    /\ out' = [op |-> "dictset", target |-> o, name |-> name,
               value |-> value, ret |-> RetNone, printed |-> << >>]
    /\ UNCHANGED <<managed, nameVars, itemVars, tombVars>>

\* Managed.name = value
ClassAssign(name, value) ==
    /\ managed' = [managed EXCEPT ![name] = ClassInt(value)]
    /\ out' = [op |-> "classset", name |-> name, value |-> value,
               ret |-> RetNone, printed |-> << >>]
    /\ UNCHANGED <<objs, nameVars, itemVars, tombVars>>

-----------------------------------------------------------------------------
(* Tombola containers (abc_tombola.py): lists and their methods *)

\* The items put into the containers
Balls == 1..2

\* The variables of the AddableBingoCage doctest that hold a container
Names == {"globe", "globe2"}

TombolaClasses == {"BingoCage", "AddableBingoCage", "LotteryBlower",
                   "TomboList"}

\* Lists of at most n items
Lists(n) == UNION {[1..k -> Balls] : k \in 0..n}

\* list.count(x)
Count(s, x) == Cardinality({i \in DOMAIN s : s[i] = x})

\* random.shuffle(s): any arrangement of the same items
Shuffles(s) ==
    IF s = << >> THEN {<< >>}
    ELSE {t \in [1..Len(s) -> {s[i] : i \in DOMAIN s}] :
            \A i \in DOMAIN s : Count(t, s[i]) = Count(s, s[i])}

\* list after pop(position), positions counted from 1
RemoveAt(s, position) ==
    SubSeq(s, 1, position - 1) \o SubSeq(s, position + 1, Len(s))

RECURSIVE Insert(_, _)
Insert(s, x) ==
    IF s = << >> THEN <<x>>
    ELSE IF x < Head(s) THEN <<x>> \o s
    ELSE <<Head(s)>> \o Insert(Tail(s), x)

\* sorted(s), ascending
RECURSIVE sorted(_)
sorted(s) == IF s = << >> THEN << >> ELSE Insert(sorted(Tail(s)), Head(s))

\* Outcome of a method call: the list the object is left with, and either
\* the value returned or the exception raised
Returns(lst, ret) == [exc |-> "none", items |-> lst, ret |-> ret]
Raises(lst, exc) == [exc |-> exc, items |-> lst]

\* A container object: its class and its list (_items of a BingoCage,
\* _balls of a LotteryBlower, the TomboList itself)
Tombola(cls, lst) == [cls |-> cls, items |-> lst]

Unbound == [cls |-> "none", items |-> << >>]

\* BingoCage and its subclass, which inherit inspect and loaded
IsBingoCage(cls) == cls \in {"BingoCage", "AddableBingoCage"}

-----------------------------------------------------------------------------
(* Tombola containers: methods. A method is the set of outcomes it can have *)

\* BingoCage.load: extend, then shuffle
BingoCageLoad(lst, iterable) ==
    {Returns(t, "None") : t \in Shuffles(lst \o iterable)}

\* BingoCage.pick: pop the last item, IndexError becomes LookupError
BingoCagePick(lst) ==
    IF lst = << >> THEN {Raises(lst, "LookupError")}
    ELSE {Returns(SubSeq(lst, 1, Len(lst) - 1), lst[Len(lst)])}

\* LotteryBlower.load
LotteryBlowerLoad(balls, iterable) == {Returns(balls \o iterable, "None")}

\* LotteryBlower.pick: randrange(0) raises ValueError, turned to LookupError
LotteryBlowerPick(balls) ==
    IF Len(balls) = 0 THEN {Raises(balls, "LookupError")}
    ELSE {Returns(RemoveAt(balls, p), balls[p]) : p \in 1..Len(balls)}

\* TomboList.load = list.extend
TomboListLoad(self, iterable) == {Returns(self \o iterable, "None")}

\* A pick that returns an item without removing it
TomboListPick_KeepsItem(self) ==
    IF self # << >>
    THEN {Returns(self, self[p]) : p \in 1..Len(self)}
    ELSE {Raises(self, "LookupError")}

\* TomboList.pick
TomboListPick(self) ==
    IF self # << >>
    THEN {Returns(RemoveAt(self, p), self[p]) : p \in 1..Len(self)}
    ELSE {Raises(self, "LookupError")}

\* self.load(iterable)
load(c, iterable) ==
    CASE IsBingoCage(c.cls)        -> BingoCageLoad(c.items, iterable)
      [] c.cls = "LotteryBlower"   -> LotteryBlowerLoad(c.items, iterable)
      [] OTHER                     -> TomboListLoad(c.items, iterable)

\* self.pick()
pick(c) ==
    CASE IsBingoCage(c.cls)        -> BingoCagePick(c.items)
      [] c.cls = "LotteryBlower"   -> LotteryBlowerPick(c.items)
      [] OTHER                     -> TomboListPick(c.items)

\* The while loop of Tombola.inspect: pick until LookupError. The result is
\* the set of <<list left, items picked>> the loop can end with.
RECURSIVE InspectLoop(_, _)
InspectLoop(c, lst) ==
    UNION {IF r.exc = "LookupError" THEN {<<r.items, lst>>}
           ELSE InspectLoop(Tombola(c.cls, r.items), Append(lst, r.ret)) :
             r \in pick(c)}

\* Tombola.inspect without the load that puts the items back
TombolaInspect_NoReload(c) ==
    UNION {{Returns(d[1], sorted(d[2]))} : d \in InspectLoop(c, << >>)}

\* Tombola.inspect: pick everything, load it back, return it sorted
TombolaInspect(c) ==
    UNION {{Returns(r.items, sorted(d[2])) :
              r \in load(Tombola(c.cls, d[1]), d[2])} :
             d \in InspectLoop(c, << >>)}

\* Tombola.loaded
TombolaLoaded(c) ==
    {Returns(r.items, r.ret # << >>) : r \in TombolaInspect(c)}

\* LotteryBlower.inspect and LotteryBlower.loaded
LotteryBlowerInspect(balls) == {Returns(balls, sorted(balls))}
LotteryBlowerLoaded(balls) == {Returns(balls, balls # << >>)}

\* TomboList.inspect and TomboList.loaded
TomboListInspect(self) == {Returns(self, sorted(self))}
TomboListLoaded(self) == {Returns(self, self # << >>)}

\* self.inspect()
inspect(c) ==
    CASE IsBingoCage(c.cls)        -> TombolaInspect(c)
      [] c.cls = "LotteryBlower"   -> LotteryBlowerInspect(c.items)
      [] OTHER                     -> TomboListInspect(c.items)

\* self.loaded()
loaded(c) ==
    CASE IsBingoCage(c.cls)        -> TombolaLoaded(c)
      [] c.cls = "LotteryBlower"   -> LotteryBlowerLoaded(c.items)
      [] OTHER                     -> TomboListLoaded(c.items)

\* BingoCage.__call__: picks and returns nothing
BingoCageCall(lst) ==
    {IF r.exc = "none" THEN Returns(r.items, "None") ELSE r :
       r \in BingoCagePick(lst)}

\* BingoCage.__init__, LotteryBlower.__init__, list.__init__: the lists a
\* new object can hold
TombolaInit(cls, iterable) ==
    IF IsBingoCage(cls) THEN {r.items : r \in BingoCageLoad(<< >>, iterable)}
    ELSE {iterable}

-----------------------------------------------------------------------------
(* AddableBingoCage (operator_overloading.py): + and += *)

\* Right operands: a variable bound to a container, a list, an int
Ref(n) == [kind |-> "name", name |-> n]
ListOf(l) == [kind |-> "list", value |-> l]
IntOf(i) == [kind |-> "int", value |-> i]

Operands(n) ==
    {Ref(name) : name \in Names} \cup {ListOf(l) : l \in Lists(n)}
        \cup {IntOf(1)}

\* isinstance(other, Tombola): BingoCage, AddableBingoCage and LotteryBlower
\* subclass Tombola, TomboList is registered with it
IsTombola(other) == other.kind = "name"

\* iter(other) succeeds
IsIterable(other) == other.kind = "list"

\* The NotImplemented singleton
NotImplemented == [cls |-> "NotImplementedType"]

\* Outcome of an operator: the containers afterwards, and the value
\* returned or the exception raised
OpReturns(cs, ret) == [exc |-> "none", cages |-> cs, ret |-> ret]
OpRaises(cs, exc) == [exc |-> exc, cages |-> cs]

\* An __add__ that builds the result from the left operand only
AddableBingoCageAdd_LeftOnly(cs, self, other) ==
    IF IsTombola(other)
    THEN UNION {
           LET c1 == [cs EXCEPT ![self].items = r1.items]
           IN  {OpReturns(c1, Tombola("AddableBingoCage", t)) :
                  t \in TombolaInit("AddableBingoCage", r1.ret)} :
             r1 \in inspect(cs[self])}
    ELSE {OpReturns(cs, NotImplemented)}

\* AddableBingoCage.__add__
AddableBingoCageAdd(cs, self, other) ==
    IF IsTombola(other)
    THEN UNION {
           LET c1 == [cs EXCEPT ![self].items = r1.items]
           IN  UNION {
                 LET c2 == [c1 EXCEPT ![other.name].items = r2.items]
                 IN  {OpReturns(c2, Tombola("AddableBingoCage", t)) :
                        t \in TombolaInit("AddableBingoCage",
                                          r1.ret \o r2.ret)} :
                   r2 \in inspect(c1[other.name])} :
             r1 \in inspect(cs[self])}
    ELSE {OpReturns(cs, NotImplemented)}

\* self + other: when __add__ returns NotImplemented the reflected method of
\* a list or an int does not take a container either, and TypeError is raised
BinaryAdd(cs, self, other) ==
    {IF r.ret.cls = "NotImplementedType" THEN OpRaises(r.cages, "TypeError")
     ELSE r : r \in AddableBingoCageAdd(cs, self, other)}

\* An __iadd__ that returns self without loading
AddableBingoCageIAdd_NoLoad(cs, self, other) ==
    IF IsTombola(other)
    THEN {OpReturns([cs EXCEPT ![other.name].items = r.items], self) :
            r \in inspect(cs[other.name])}
    ELSE IF IsIterable(other) THEN {OpReturns(cs, self)}
    ELSE {OpRaises(cs, "TypeError")}

\* AddableBingoCage.__iadd__
AddableBingoCageIAdd(cs, self, other) ==
    IF IsTombola(other)
    THEN UNION {
           LET c1 == [cs EXCEPT ![other.name].items = r.items]
           IN  {OpReturns([c1 EXCEPT ![self].items = l.items], self) :
                  l \in load(c1[self], r.ret)} :
             r \in inspect(cs[other.name])}
    ELSE IF IsIterable(other)
    THEN {OpReturns([cs EXCEPT ![self].items = l.items], self) :
            l \in load(cs[self], other.value)}
    ELSE {OpRaises(cs, "TypeError")}

-----------------------------------------------------------------------------
(* Tombola containers: statements *)

\* What a statement reports of an outcome
Out(r) == IF r.exc = "none" THEN [exc |-> "none", ret |-> r.ret]
          ELSE [exc |-> r.exc]

\* Number of items an operand brings; no container built or loaded by
\* a statement holds more than MaxBalls items
Size(other) ==
    CASE other.kind = "name" -> Len(cages[other.name].items)
      [] other.kind = "list" -> Len(other.value)
      [] OTHER               -> 0

\* n = cls(iterable)
NewTombola(n, cls, iterable) ==
    /\ cages[n] = Unbound
    /\ \E t \in TombolaInit(cls, iterable) :
         cages' = [cages EXCEPT ![n] = Tombola(cls, t)]
    /\ res' = [op |-> "new", self |-> n, out |-> [exc |-> "none"]]
    /\ UNCHANGED <<nameVars, itemVars, kindVars>>

\* n.load(iterable)
Load(n, iterable) ==
    /\ cages[n] # Unbound
    /\ Len(cages[n].items) + Len(iterable) <= MaxBalls
    /\ \E r \in load(cages[n], iterable) :
         /\ cages' = [cages EXCEPT ![n].items = r.items]
         /\ res' = [op |-> "load", self |-> n, out |-> Out(r)]
    /\ UNCHANGED <<nameVars, itemVars, kindVars>>

\* n.pick()
Pick(n) ==
    /\ cages[n] # Unbound
    /\ \E r \in pick(cages[n]) :
         /\ cages' = [cages EXCEPT ![n].items = r.items]
         /\ res' = [op |-> "pick", self |-> n, out |-> Out(r)]
    /\ UNCHANGED <<nameVars, itemVars, kindVars>>

\* n.inspect()
Inspect(n) ==
    /\ cages[n] # Unbound
    /\ \E r \in inspect(cages[n]) :
         /\ cages' = [cages EXCEPT ![n].items = r.items]
         /\ res' = [op |-> "inspect", self |-> n, out |-> Out(r)]
    /\ UNCHANGED <<nameVars, itemVars, kindVars>>

\* n.loaded()
Loaded(n) ==
    /\ cages[n] # Unbound
    /\ \E r \in loaded(cages[n]) :
         /\ cages' = [cages EXCEPT ![n].items = r.items]
         /\ res' = [op |-> "loaded", self |-> n, out |-> Out(r)]
    /\ UNCHANGED <<nameVars, itemVars, kindVars>>

\* n()
Call(n) ==
    /\ IsBingoCage(cages[n].cls)
    /\ \E r \in BingoCageCall(cages[n].items) :
         /\ cages' = [cages EXCEPT ![n].items = r.items]
         /\ res' = [op |-> "call", self |-> n, out |-> Out(r)]
    /\ UNCHANGED <<nameVars, itemVars, kindVars>>

\* n + other
Add(n, other) ==
    /\ cages[n].cls = "AddableBingoCage"
    /\ other.kind = "name" => cages[other.name] # Unbound
    /\ Len(cages[n].items) + Size(other) <= MaxBalls
    /\ \E r \in BinaryAdd(cages, n, other) :
         /\ cages' = r.cages
         /\ res' = [op |-> "add", self |-> n, other |-> other,
                    out |-> Out(r)]
    /\ UNCHANGED <<nameVars, itemVars, kindVars>>

\* n += other
IAdd(n, other) ==
    /\ cages[n].cls = "AddableBingoCage"
    /\ other.kind = "name" => cages[other.name] # Unbound
    /\ Len(cages[n].items) + Size(other) <= MaxBalls
    /\ \E r \in AddableBingoCageIAdd(cages, n, other) :
         /\ cages' = r.cages
         /\ res' = [op |-> "iadd", self |-> n, other |-> other,
                    out |-> Out(r)]
    /\ UNCHANGED <<nameVars, itemVars, kindVars>>

-----------------------------------------------------------------------------
(* Specifications *)

NameInit ==
    /\ counters = InitCounters
    /\ fn_attrs = EmptyDict
    /\ descs = << >>
    /\ ns = << >>
    /\ built = [how |-> "none"]

ItemInit ==
    /\ items = << >>
    /\ last = [op |-> "none"]

KindInit ==
    /\ managed = ManagedBody
    /\ objs = << >>
    /\ out = [op |-> "none"]

TombInit ==
    /\ cages = [n \in Names |-> Unbound]
    /\ res = [op |-> "none"]

Init == NameInit /\ ItemInit /\ KindInit /\ TombInit

\* Descriptors and properties are created in any order
NextNames ==
    \/ \E cls \in AutoStorageClasses : CreateAutoStorage(cls)
    \/ CreateQuantityAuto
    \/ CreateQuantityAutoProperty

SpecNames == Init /\ [][NextNames]_vars

\* One class statement: its body is executed, then the class is built
NextEntity ==
    \/ \E key \in Keys, cls \in AutoStorageClasses : BodyNew(key, cls)
    \/ \E key \in Keys, id \in 1..MaxBodyDescs : BodyBind(key, id)
    \/ \E key \in Keys : BodyPlain(key, 5)
    \/ DefineEntity
    \/ DefineEntityMeta
    \/ DefineEntityMeta2

SpecEntity == Init /\ [][NextEntity]_vars

\* LineItems are built and assigned to
NextItems ==
    \/ \E cls \in LineItemClasses :
         \E description \in Inputs(cls, "description"),
            weight \in Numbers, price \in Numbers :
              NewLineItem(cls, description, weight, price)
    \/ \E i \in 1..MaxItems, name \in Keys :
         /\ i <= Len(items)
         /\ \E value \in Inputs(items[i].cls, name) : Assign(i, name, value)

SpecItems == Init /\ [][NextItems]_vars

\* Statements on Managed and its instances
NextKinds ==
    \/ NewManaged
    \/ \E o \in 1..MaxObjs, name \in ManagedNames : Read(o, name)
    \/ \E name \in ManagedNames : ClassRead(name)
    \/ \E o \in 1..MaxObjs, name \in ManagedNames, v \in ManagedValues :
         Write(o, name, v)
    \/ \E o \in 1..MaxObjs, name \in ManagedNames : Delete(o, name)
    \/ \E o \in 1..MaxObjs, name \in ManagedNames, v \in ManagedValues :
         DictAssign(o, name, v)
    \/ \E name \in ManagedNames, v \in PatchValues : ClassAssign(name, v)

SpecKinds == Init /\ [][NextKinds]_vars

\* Containers are built, loaded, picked from, inspected, added
NextTombola ==
    \/ \E n \in Names, cls \in TombolaClasses, iterable \in Lists(MaxBalls) :
         NewTombola(n, cls, iterable)
    \/ \E n \in Names, iterable \in Lists(MaxBalls) : Load(n, iterable)
    \/ \E n \in Names : Pick(n)
    \/ \E n \in Names : Inspect(n)
    \/ \E n \in Names : Loaded(n)
    \/ \E n \in Names : Call(n)
    \/ \E n \in Names, other \in Operands(MaxBalls) : Add(n, other)
    \/ \E n \in Names, other \in Operands(MaxBalls) : IAdd(n, other)

SpecTombola == Init /\ [][NextTombola]_vars

Next == NextNames \/ NextEntity \/ NextItems \/ NextKinds \/ NextTombola

Spec == Init /\ [][Next]_vars

-----------------------------------------------------------------------------
(* Properties of the generated storage names (SpecNames) *)

\* C3: any two distinct descriptors or properties created by
\* AutoStorage.__init__ (as AutoStorage, Quantity or NonBlank),
\* QuantityAuto.__init__ or quantity_auto() have different storage names,
\* in whatever order the objects of the different classes are created.
C3_StorageNamesUnique ==
    \A i, j \in 1..Len(descs) :
        i # j => descs[i].storage_name # descs[j].storage_name

\* An AutoStorage was created before the first Quantity, which therefore
\* started from the counter it inherits, and a NonBlank, a QuantityAuto and
\* a quantity_auto property exist too
C3_Witness ==
    /\ Len(descs) >= 4
    /\ descs[1].cls = "AutoStorage"
    /\ descs[2].cls = "Quantity"
    /\ descs[2].storage_name = "_Quantity#1"
    /\ \E i \in 3..Len(descs) : descs[i].cls = "QuantityAuto"
    /\ \E i \in 3..Len(descs) : descs[i].cls = "property"

-----------------------------------------------------------------------------
(* Properties of @entity, EntityMeta and EntityMeta2 (SpecEntity) *)

\* The entries of the class body that hold a Validated descriptor
ValidatedEntries(body) ==
    {i \in 1..Len(body) :
        /\ body[i][2].kind = "desc"
        /\ descs[body[i][2].ref].cls \in {"Quantity", "NonBlank"}}

\* The last entry of the body, in its order, that binds the same object as
\* entry i
LastBinding(body, i) ==
    CHOOSE j \in 1..Len(body) :
        /\ body[j][2] = body[i][2]
        /\ \A k \in 1..Len(body) : body[k][2] = body[i][2] => k <= j

\* The name the class builders give to the descriptor of entry i for `key`
EntityName(body, i, key) ==
    "_" \o descs[body[i][2].ref].cls \o "#" \o key

\* The descriptors that are not Validated keep the name their creation
\* gave them: the k-th AutoStorage created is '_AutoStorage#<k-1>'
NonValidatedUntouched ==
    \A d \in 1..Len(descs) :
        descs[d].cls = "AutoStorage" =>
            descs[d].storage_name =
                "_AutoStorage#" \o ToString(
                    Cardinality({e \in 1..(d - 1) : descs[e].cls = "AutoStorage"}))

\* C6 as stated: once a class is built by @entity, EntityMeta or
\* EntityMeta2, every Validated descriptor bound to a name `key` of the
\* class body has the storage name '_<type>#<key>', and what is not a
\* Validated descriptor is untouched.
C6_EveryBindingNamesTheDescriptor ==
    built.how # "none" =>
        /\ \A i \in ValidatedEntries(built.body) :
               descs[built.body[i][2].ref].storage_name =
                   EntityName(built.body, i, built.body[i][1])
        /\ NonValidatedUntouched

\* C6, amended: once a class is built by @entity, EntityMeta or EntityMeta2,
\* every Validated descriptor bound in the class body has the storage name
\* '_<type>#<key>' for the last name, in the order of the body, that it is
\* bound to (so for each of its names when it is bound to one name only),
\* and what is not a Validated descriptor is untouched.
C6_LastBindingNamesTheDescriptor ==
    built.how # "none" =>
        /\ \A i \in ValidatedEntries(built.body) :
               descs[built.body[i][2].ref].storage_name =
                   EntityName(built.body, i,
                              built.body[LastBinding(built.body, i)][1])
        /\ NonValidatedUntouched

\* The class LineItem of descriptor_bulkfood2: description = NonBlank(),
\* weight = Quantity(), price = Quantity(), decorated with @entity
C6_Witness ==
    /\ built.how = "entity"
    /\ [i \in 1..Len(built.body) |-> built.body[i][1]]
           = <<"description", "weight", "price">>
    /\ ValidatedEntries(built.body) = {1, 2, 3}
    /\ descs[built.body[1][2].ref].storage_name = "_NonBlank#description"
    /\ descs[built.body[2][2].ref].storage_name = "_Quantity#weight"
    /\ descs[built.body[3][2].ref].storage_name = "_Quantity#price"

\* The names of the entries of `body` that hold a Validated descriptor, in
\* the order of the body
RECURSIVE ValidatedNames(_, _)
ValidatedNames(body, i) ==
    IF i = 0 THEN << >>
    ELSE IF i \in ValidatedEntries(body)
    THEN Append(ValidatedNames(body, i - 1), body[i][1])
    ELSE ValidatedNames(body, i - 1)

\* C7: for a class built by EntityMeta2, field_names() yields exactly the
\* names bound to Validated descriptors in the class body, in the order of
\* the body, and no name of an attribute that is not a Validated
\* descriptor.
C7_FieldNamesInBodyOrder ==
    built.how = "EntityMeta2" =>
        field_names(built) = ValidatedNames(built.body, Len(built.body))

\* A class built by EntityMeta2 whose body binds weight to a Quantity, then
\* description to something that is not Validated, then price to a
\* Validated descriptor
C7_Witness ==
    /\ built.how = "EntityMeta2"
    /\ [i \in 1..Len(built.body) |-> built.body[i][1]]
           = <<"weight", "description", "price">>
    /\ ValidatedEntries(built.body) = {1, 3}
    /\ field_names(built) = <<"weight", "price">>

-----------------------------------------------------------------------------
(* Properties of the LineItem classes (SpecItems) *)

Attrs(cls) == LineItemClass(cls).attrs

\* items[i].name, read
ItemGet(i, name) == GetAttr(items[i].cls, items[i].dict, name)

\* name is an attribute of cls managed by a quantity property or descriptor
QuantityManaged(cls, name) ==
    name \in DOMAIN Attrs(cls) /\ Attrs(cls)[name].cls # "NonBlank"

\* the description of cls is managed by a NonBlank descriptor
NonBlankManaged(cls) ==
    /\ "description" \in DOMAIN Attrs(cls)
    /\ Attrs(cls)["description"].cls = "NonBlank"

Char(s, k) == SubSeq(s, k, k)

\* s is empty or consists of whitespace only
Blank(s) == \A k \in 1..Len(s) : Char(s, k) \in Whitespace

\* s is `given` without its leading and trailing whitespace
StrippedOf(s, given) ==
    \E a, b \in 1..Len(given) :
        /\ a <= b
        /\ s = SubSeq(given, a, b)
        /\ Char(given, a) \notin Whitespace
        /\ Char(given, b) \notin Whitespace
        /\ \A k \in 1..(a - 1) : Char(given, k) \in Whitespace
        /\ \A k \in (b + 1)..Len(given) : Char(given, k) \in Whitespace

\* C1: assigning a value <= 0 to an attribute managed by a quantity
\* property or descriptor (the weight property of property_bulkfood, the
\* quantity and quantity_auto properties, the Quantity and QuantityAuto
\* descriptors) raises ValueError and changes nothing: the attribute reads
\* what it read before the assignment.
C1_RejectedAssignmentChangesNothing ==
    [][(/\ last'.op = "set"
        /\ last'.name \in {"weight", "price"}
        /\ QuantityManaged(items[last'.target].cls, last'.name)
        /\ Le(last'.value, 0))
       => (/\ last'.exc = "ValueError"
           /\ GetAttr(items'[last'.target].cls, items'[last'.target].dict,
                      last'.name)
                  = ItemGet(last'.target, last'.name)
           /\ items' = items)]_vars

\* raisins.weight = -1 was rejected on a property_bulkfood.LineItem that
\* still has its weight
C1_Witness ==
    /\ last.op = "set"
    /\ last.name = "weight"
    /\ last.value = -1
    /\ last.exc = "ValueError"
    /\ items[last.target].cls = "property_bulkfood.LineItem"
    /\ ItemGet(last.target, "weight") = Value(2)

\* C2: the weight is checked on instantiation too: a construction with
\* weight <= 0 raises ValueError, and every LineItem that exists, after any
\* constructions and assignments through its attributes, has a weight > 0.
C2_WeightAlwaysPositive ==
    /\ \A i \in 1..Len(items) :
          LET r == ItemGet(i, "weight")
          IN  r.tag = "value" /\ Gt(r.value, 0)
    /\ (last.op = "new" /\ Le(last.weight, 0)) => last.exc = "ValueError"

\* The instance and the value of each managed attribute the last statement
\* assigned with success
LastAssigned ==
    IF last.op = "set" /\ last.exc = "none"
    THEN {<<last.target, last.name, last.value>>}
            \cap {t \in {<<last.target, last.name, last.value>>} :
                     t[2] \in DOMAIN Attrs(items[t[1]].cls)}
    ELSE IF last.op = "new" /\ last.exc = "none"
    THEN {<<Len(items), name, last[name]>> : name \in DOMAIN Attrs(last.cls)}
    ELSE {}

\* The managed attributes read through their class are the descriptors and
\* properties themselves, those of LineItemAuto storing under
\* '_QuantityAuto#0' and '_QuantityAuto#1'
ClassReadsDescriptor ==
    /\ \A cls \in LineItemClasses : \A name \in DOMAIN Attrs(cls) :
          /\ ClassGetAttr(cls, name).tag = "descriptor"
          /\ ClassGetAttr(cls, name).value = Attrs(cls)[name]
    /\ ClassGetAttr("descriptor_bulkfood.LineItemAuto", "weight")
           .value.storage_name = "_QuantityAuto#0"
    /\ ClassGetAttr("descriptor_bulkfood.LineItemAuto", "price")
           .value.storage_name = "_QuantityAuto#1"

\* C4 as stated: after a successful assignment of v to a managed attribute
\* of an instance, reading the attribute through the instance returns v,
\* and v is what the instance holds under the descriptor's storage_name;
\* reading the attribute through the class returns the descriptor itself.
C4_ReadsBackTheValueAssigned ==
    /\ \A t \in LastAssigned :
          LET it   == items[t[1]]
              desc == Attrs(it.cls)[t[2]]
          IN  /\ ItemGet(t[1], t[2]) = Value(t[3])
              /\ desc.storage_name \in DOMAIN it.dict
              /\ it.dict[desc.storage_name] = t[3]
    /\ ClassReadsDescriptor

\* C4, amended: after a successful assignment of v to a managed attribute of
\* an instance, reading the attribute through the instance returns the
\* validated value, which is v for a quantity attribute and v without its
\* leading and trailing whitespace for a NonBlank attribute, and that value
\* is what the instance holds under the descriptor's storage_name; reading
\* the attribute through the class returns the descriptor itself.
C4_ReadsBackTheValidatedValue ==
    /\ \A t \in LastAssigned :
          LET it   == items[t[1]]
              desc == Attrs(it.cls)[t[2]]
              r    == ItemGet(t[1], t[2])
          IN  /\ r.tag = "value"
              /\ IF desc.cls = "NonBlank"
                 THEN StrippedOf(r.value, t[3])
                 ELSE r.value = t[3]
              /\ desc.storage_name \in DOMAIN it.dict
              /\ it.dict[desc.storage_name] = r.value
    /\ ClassReadsDescriptor

\* coconuts.weight = 2 on a LineItemAuto of descriptor_bulkfood: the value
\* is read back and is held under '_QuantityAuto#0'
C4_Witness ==
    /\ last.op = "set"
    /\ last.exc = "none"
    /\ last.name = "weight"
    /\ last.value = 2
    /\ items[last.target].cls = "descriptor_bulkfood.LineItemAuto"
    /\ ItemGet(last.target, "weight") = Value(2)
    /\ items[last.target].dict["_QuantityAuto#0"] = 2

\* C5: an attribute managed by NonBlank never holds a blank string:
\* assigning an empty or all-whitespace string raises ValueError, an
\* accepted assignment stores the string without its leading and trailing
\* whitespace, and the stored value has a character that is not whitespace.
C5_NonBlankNeverBlank ==
    /\ \A i \in 1..Len(items) :
          NonBlankManaged(items[i].cls) =>
              LET r == ItemGet(i, "description")
              IN  /\ r.tag = "value"
                  /\ \E k \in 1..Len(r.value) : Char(r.value, k) \notin Whitespace
    /\ (/\ last.op = "set"
        /\ last.name = "description"
        /\ NonBlankManaged(items[last.target].cls))
       => IF Blank(last.value)
          THEN last.exc = "ValueError"
          ELSE /\ last.exc = "none"
               /\ StrippedOf(ItemGet(last.target, "description").value,
                             last.value)
    /\ (last.op = "new" /\ NonBlankManaged(last.cls))
       => /\ Blank(last.description) => last.exc = "ValueError"
          /\ last.exc = "none" =>
                StrippedOf(ItemGet(Len(items), "description").value,
                           last.description)

\* raisins.description = ' a ' was accepted and the description reads 'a'
C5_Witness ==
    /\ last.op = "set"
    /\ last.name = "description"
    /\ last.value = " a "
    /\ last.exc = "none"
    /\ NonBlankManaged(items[last.target].cls)
    /\ ItemGet(last.target, "description") = Value("a")

-----------------------------------------------------------------------------
(* Properties of the descriptors of Managed (SpecKinds) *)

\* The class attribute `name` of Managed is still the descriptor of the
\* class body
IsDescriptor(name) == managed[name].kind = "descriptor"

\* The last statement was `op` on attribute `name` of an instance
Did(op, name) == out.op = op /\ out.name = name

\* The statement of this step is an assignment through the instance to
\* attribute `name`, bound to its descriptor in the class
Assigns(name) ==
    /\ out'.op = "set"
    /\ out'.name = name
    /\ managed[name].kind = "descriptor"

\* C8: with the overriding descriptor Overriding, every read obj.over and
\* every assignment obj.over = v through an instance calls __get__ /
\* __set__ of the descriptor, whether or not obj.__dict__ has an entry
\* 'over': the entry never shadows the descriptor, and the assignment
\* leaves obj.__dict__ as it was.
C8_OverridingAlwaysCalled ==
    /\ [](/\ (Did("get", "over") /\ IsDescriptor("over")) =>
                /\ out.printed = <<"-> Overriding.__get__(<Overriding object>, <Managed object>, <class Managed>)">>
                /\ out.ret = RetNone
          /\ (Did("set", "over") /\ IsDescriptor("over")) =>
                out.printed = <<"-> Overriding.__set__(<Overriding object>, <Managed object>, "
                                    \o ToString(out.value) \o ")">>)
    /\ [][Assigns("over") => objs' = objs]_vars

\* obj.over was read while obj.__dict__ held {'over': 9}, and __get__ was
\* called
C8_Witness ==
    /\ Did("get", "over")
    /\ IsDescriptor("over")
    /\ "over" \in DOMAIN objs[out.target]
    /\ objs[out.target]["over"] = 9
    /\ Len(out.printed) = 1

\* C9: with OverridingNoGet, which has no __get__, an assignment
\* obj.over_no_get = v always calls __set__ and leaves obj.__dict__ as it
\* was, and a read returns the entry of obj.__dict__ when there is one and
\* the descriptor object itself otherwise; so once obj.__dict__ holds
\* {'over_no_get': 9}, assigning 7 through the attribute still reads 9.
C9_NoGetShadowedOnReadOnly ==
    /\ [](/\ (Did("set", "over_no_get") /\ IsDescriptor("over_no_get")) =>
                out.printed = <<"-> OverridingNoGet.__set__(<OverridingNoGet object>, <Managed object>, "
                                    \o ToString(out.value) \o ")">>
          /\ (Did("get", "over_no_get") /\ IsDescriptor("over_no_get")) =>
                /\ out.printed = << >>
                /\ IF "over_no_get" \in DOMAIN objs[out.target]
                   THEN out.ret = RetInt(objs[out.target]["over_no_get"])
                   ELSE out.ret = RetDesc("OverridingNoGet"))
    /\ [][Assigns("over_no_get") => objs' = objs]_vars

\* obj.over_no_get = 7 was run while obj.__dict__ held {'over_no_get': 9},
\* and the entry is still 9
C9_Witness ==
    /\ Did("set", "over_no_get")
    /\ IsDescriptor("over_no_get")
    /\ out.value = 7
    /\ Len(out.printed) = 1
    /\ "over_no_get" \in DOMAIN objs[out.target]
    /\ objs[out.target]["over_no_get"] = 9

\* The entry of `name` in the __dict__ d, if any
Entry(d, name) == IF name \in DOMAIN d THEN {d[name]} ELSE {}

\* The statement of this step assigns, deletes or pokes attribute `name`
\* of instance o
Rebinds(o, name) ==
    /\ out'.op \in {"set", "del", "dictset"}
    /\ out'.target = o
    /\ out'.name = name

\* C10: with NonOverriding, which has no __set__, obj.non_over = v makes
\* an instance attribute without calling the descriptor, and from then on
\* obj.non_over reads v (for that instance only; a read through the class
\* still calls __get__); after del obj.non_over a read through the
\* instance calls __get__ again.
C10_NonOverridingShadowed ==
    /\ [](IsDescriptor("non_over") =>
            /\ Did("set", "non_over") =>
                  /\ out.printed = << >>
                  /\ "non_over" \in DOMAIN objs[out.target]
                  /\ objs[out.target]["non_over"] = out.value
            /\ Did("get", "non_over") =>
                  IF "non_over" \in DOMAIN objs[out.target]
                  THEN /\ out.ret = RetInt(objs[out.target]["non_over"])
                       /\ out.printed = << >>
                  ELSE /\ out.ret = RetNone
                       /\ out.printed = <<"-> NonOverriding.__get__(<NonOverriding object>, <Managed object>, <class Managed>)">>
            /\ Did("classget", "non_over") =>
                  out.printed = <<"-> NonOverriding.__get__(<NonOverriding object>, None, <class Managed>)">>
            /\ (Did("del", "non_over") /\ out.ret = RetNone) =>
                  "non_over" \notin DOMAIN objs[out.target])
    /\ [][\A o \in 1..Len(objs) :
            ~Rebinds(o, "non_over") =>
                Entry(objs'[o], "non_over") = Entry(objs[o], "non_over")]_vars

\* obj.non_over was read after obj.non_over = 7 and returned 7 without
\* calling the descriptor
C10_Witness ==
    /\ Did("get", "non_over")
    /\ IsDescriptor("non_over")
    /\ out.ret = RetInt(7)
    /\ out.printed = << >>

-----------------------------------------------------------------------------
(* Properties of the Tombola containers (SpecTombola) *)

\* The two lists hold the same items, each as many times
SameItems(s, t) == \A x \in Balls : Count(s, x) = Count(t, x)

IsSorted(s) == \A i \in 1..(Len(s) - 1) : s[i] <= s[i + 1]

\* No variable is bound to another class, and every container other than
\* those named in the set keeps its list as it is
OthersUntouched(except) ==
    \A n \in Names :
        /\ cages'[n].cls = cages[n].cls
        /\ n \notin except => cages'[n] = cages[n]

\* C11: inspect() returns the items currently inside as a sorted tuple and
\* leaves the contents unchanged: the container holds the same items, each
\* as many times, after the call as before it (a BingoCage, which inherits
\* Tombola.inspect, may hold them in another order); and loaded() returns
\* True exactly when there is at least one item inside, and changes no
\* contents either.
C11_InspectLeavesContents ==
    [][/\ res'.op = "inspect" =>
            /\ res'.out.exc = "none"
            /\ IsSorted(res'.out.ret)
            /\ SameItems(res'.out.ret, cages[res'.self].items)
            /\ Len(res'.out.ret) = Len(cages[res'.self].items)
            /\ SameItems(cages'[res'.self].items, cages[res'.self].items)
            /\ Len(cages'[res'.self].items) = Len(cages[res'.self].items)
            /\ OthersUntouched({res'.self})
       /\ res'.op = "loaded" =>
            /\ res'.out.exc = "none"
            /\ res'.out.ret = (Len(cages[res'.self].items) >= 1)
            /\ SameItems(cages'[res'.self].items, cages[res'.self].items)
            /\ Len(cages'[res'.self].items) = Len(cages[res'.self].items)
            /\ OthersUntouched({res'.self})]_vars

\* A BingoCage holding 2 then 1 has just been inspected
C11_Witness ==
    /\ res.op = "inspect"
    /\ cages[res.self].cls = "BingoCage"
    /\ cages[res.self].items = <<2, 1>>
    /\ res.out.ret = <<1, 2>>

\* C12: for BingoCage (and AddableBingoCage), LotteryBlower and TomboList,
\* pick() on a non-empty container returns an item that was inside and
\* leaves exactly the other items, in their order; pick() on an empty
\* container raises LookupError and leaves it empty. No other container
\* changes.
C12_PickRemovesOneItem ==
    [][res'.op = "pick" =>
         /\ OthersUntouched({res'.self})
         /\ IF cages[res'.self].items = << >>
            THEN /\ res'.out.exc = "LookupError"
                 /\ cages'[res'.self].items = << >>
            ELSE /\ res'.out.exc = "none"
                 /\ \E p \in DOMAIN cages[res'.self].items :
                      /\ cages[res'.self].items[p] = res'.out.ret
                      /\ cages'[res'.self].items =
                             RemoveAt(cages[res'.self].items, p)]_vars

\* A TomboList that held two items has given one of them
C12_Witness ==
    /\ res.op = "pick"
    /\ res.out.exc = "none"
    /\ cages[res.self].cls = "TomboList"
    /\ Len(cages[res.self].items) = 1
    /\ res.out.ret # cages[res.self].items[1]

\* C13: a + b, a an AddableBingoCage and b a Tombola (a itself included),
\* returns a new AddableBingoCage that holds the items of a together with
\* the items of b, so len = len(a) + len(b), and every container holds the
\* same items after the operation as before; when b is a list or an int the
\* operation raises TypeError and changes nothing.
C13_AddBuildsNewCage ==
    [][res'.op = "add" =>
         IF res'.other.kind = "name"
         THEN /\ res'.out.exc = "none"
              /\ res'.out.ret.cls = "AddableBingoCage"
              /\ Len(res'.out.ret.items) =
                     Len(cages[res'.self].items)
                       + Len(cages[res'.other.name].items)
              /\ \A x \in Balls :
                     Count(res'.out.ret.items, x) =
                         Count(cages[res'.self].items, x)
                           + Count(cages[res'.other.name].items, x)
              /\ \A n \in Names :
                     /\ cages'[n].cls = cages[n].cls
                     /\ Len(cages'[n].items) = Len(cages[n].items)
                     /\ SameItems(cages'[n].items, cages[n].items)
         ELSE /\ res'.out.exc = "TypeError"
              /\ cages' = cages]_vars

\* globe + globe2, both holding items, has built a cage of their items
C13_Witness ==
    /\ res.op = "add"
    /\ res.self = "globe"
    /\ res.other = Ref("globe2")
    /\ res.out.exc = "none"
    /\ cages["globe"].items # << >>
    /\ cages["globe2"].items # << >>
    /\ Len(res.out.ret.items) >= 2

\* What a += other does to a and to the value returned: a holds its items
\* together with those of the right operand, and the statement yields a
IAddLoads(added) ==
    /\ res'.out.exc = "none"
    /\ res'.out.ret = res'.self
    /\ cages'[res'.self].cls = cages[res'.self].cls
    /\ Len(cages'[res'.self].items) =
           Len(cages[res'.self].items) + Len(added)
    /\ \A x \in Balls :
           Count(cages'[res'.self].items, x) =
               Count(cages[res'.self].items, x) + Count(added, x)

\* C14 as stated: a += b returns a itself with all the items of b added
\* when b is a Tombola or a list, leaves the contents of b unchanged
\* whenever b is a Tombola, and raises TypeError when b is an int.
C14_IAddLeavesEveryTombolaOperand ==
    [][res'.op = "iadd" =>
         CASE res'.other.kind = "name" ->
                /\ IAddLoads(cages[res'.other.name].items)
                /\ SameItems(cages'[res'.other.name].items,
                             cages[res'.other.name].items)
                /\ Len(cages'[res'.other.name].items) =
                       Len(cages[res'.other.name].items)
           [] res'.other.kind = "list" ->
                /\ IAddLoads(res'.other.value)
                /\ OthersUntouched({res'.self})
           [] OTHER ->
                /\ res'.out.exc = "TypeError"
                /\ cages' = cages]_vars

\* C14, amended: a += b returns a itself with all the items of b added
\* when b is a Tombola or a list, leaves the contents of b unchanged when b
\* is a Tombola other than a (after a += a, a holds each of its items
\* twice), and raises TypeError, changing nothing, when b is an int.
C14_IAddLeavesOtherTombola ==
    [][res'.op = "iadd" =>
         CASE res'.other.kind = "name" ->
                /\ IAddLoads(cages[res'.other.name].items)
                /\ \A n \in Names \ {res'.self} :
                       /\ cages'[n].cls = cages[n].cls
                       /\ Len(cages'[n].items) = Len(cages[n].items)
                       /\ SameItems(cages'[n].items, cages[n].items)
           [] res'.other.kind = "list" ->
                /\ IAddLoads(res'.other.value)
                /\ OthersUntouched({res'.self})
           [] OTHER ->
                /\ res'.out.exc = "TypeError"
                /\ cages' = cages]_vars

\* globe += globe2 has put the item of globe2 into globe
C14_Witness ==
    /\ res.op = "iadd"
    /\ res.self = "globe"
    /\ res.other = Ref("globe2")
    /\ res.out.exc = "none"
    /\ res.out.ret = "globe"
    /\ cages["globe2"].items # << >>
    /\ Len(cages["globe"].items) > Len(cages["globe2"].items)

====
